---- MODULE Spec2Model ----
(***************************************************************************)
(* A model of mutablerecord (src/record.py): record types built from an    *)
(* ordered member table, construction of record instances with required    *)
(* fields, validators and deep-copied defaults, the homogeneous record     *)
(* list MutableRecordSet, and the FieldView projection of one field.       *)
(*                                                                         *)
(* Python objects are modelled by identity: record instances live in the   *)
(* heap inst, record lists in the heap lists, mutable list values (the     *)
(* values a mutable default may hold) in the heap objs.  A list holds      *)
(* references (indices into inst), so the same instance may be held by     *)
(* several lists, or several times by one list.                            *)
(***************************************************************************)
EXTENDS Integers, Sequences, FiniteSets, TLC

VARIABLES
    objs,   \* heap of mutable list values: objs[k] is the content of list object k
    inst,   \* heap of record instances: [cls, fields, dflt]
    lists,  \* heap of record lists: [cls, items]
    views,  \* the FieldView objects obtained so far: [container, field]
    last    \* the last call made and how it ended

vars == <<objs, inst, lists, views, last>>

\* ------------------------------------------------------------------ bounds
MaxRecs  == 1   \* SpecRecord: record instances alive at once
MaxBags  == 2   \* SpecDefaults: record instances alive at once
MaxTags  == 2   \* SpecDefaults: items of one mutable list value
MaxInst  == 2   \* SpecList, SpecView: record instances alive at once
MaxLists == 2   \* SpecList: record lists alive at once
MaxLen   == 2   \* SpecList, SpecView: elements of one record list
MaxSrc   == 2   \* SpecList, SpecView: elements of one argument sequence
MaxBacking == 1 \* SpecView: record lists alive at once
MaxViews == 1   \* SpecView: field views alive at once

\* ------------------------------------------------------------------ values
\* A Python value: a scalar named by its tag, or a reference to a list object.
Val(tag) == [tag |-> tag, ref |-> 0]
Ref(k)   == [tag |-> "list", ref |-> k]

None     == Val("None")
Required == Val("Required")

IntTags == {"1", "2", "100"}
StrTags == {"a", "b", "d"}

\* type(value), as far as isinstance() below needs it
PyType(v) ==
    CASE v.tag \in IntTags -> "int"
      [] v.tag \in StrTags -> "str"
      [] v.tag = "list"    -> "list"
      [] v.tag = "None"    -> "NoneType"
      [] OTHER             -> "object"

IsInstance(v, type) == PyType(v) = type

\* len(value) for the values that have one; HasLen is FALSE where len() raises
\* TypeError.  Every string of the model has one character.
HasLen(v) == PyType(v) \in {"str", "list"}
PyLen(heap, v) == IF v.tag = "list" THEN Len(heap[v.ref]) ELSE 1

\* --------------------------------------------------------------- validators
\* A field specification: kind "plain" is a bare default value, every other
\* kind is a Validator carrying its default.
Spec0(kind, default) ==
    [kind |-> kind, default |-> default, type |-> "", values |-> {}, n |-> 0]

Plain(default)                   == Spec0("plain", default)
MustSatisfy(predicate, default)  == [Spec0("MustSatisfy", default) EXCEPT !.values = predicate]
InstanceOf(type, default)        == [Spec0("InstanceOf", default) EXCEPT !.type = type]
InstanceOrNone(type, default)    == [Spec0("InstanceOrNone", default) EXCEPT !.type = type]
OneOf(possible_values, default)  == [Spec0("OneOf", default) EXCEPT !.values = possible_values]
Length(n, default)               == [Spec0("Length", default) EXCEPT !.n = n]

IsValidator(spec) == spec.kind # "plain"

MustSatisfyValidate(spec, value) == value \in spec.values

InstanceOfValidate(spec, value) == IsInstance(value, spec.type)

InstanceOrNoneValidate(spec, value) == value = None \/ IsInstance(value, spec.type)

\* (faulty variant: None passes whether or not a default was given)
OneOfValidateNoneAlwaysSkipped(spec, value) ==
    IF value = None
    THEN TRUE
    ELSE value \in spec.values
OneOfValidate(spec, value) ==
    IF value = None /\ spec.default # None
    THEN TRUE
    ELSE value \in spec.values

LengthValidate(heap, spec, value) ==
    IF value = None /\ spec.default # None
    THEN TRUE
    ELSE HasLen(value) /\ PyLen(heap, value) = spec.n

\* validator.validate(value, key): TRUE when it returns, FALSE when it raises
\* DataError
Validate(heap, spec, value) ==
    CASE spec.kind = "MustSatisfy"    -> MustSatisfyValidate(spec, value)
      [] spec.kind = "InstanceOf"     -> InstanceOfValidate(spec, value)
      [] spec.kind = "InstanceOrNone" -> InstanceOrNoneValidate(spec, value)
      [] spec.kind = "OneOf"          -> OneOfValidate(spec, value)
      [] spec.kind = "Length"         -> LengthValidate(heap, spec, value)

\* ------------------------------------------------------------- record types
\* The declared default of Bag.tags is the list object created when the type
\* was declared: objs[DefaultTagsRef], declared empty.
DefaultTagsRef == 1
DeclaredTags   == << >>

Field(name, spec) == [name |-> name, spec |-> spec]

\* result_type.members of the record types the model declares, in declaration
\* order (make_mutable_type keeps every non-dunder, non-function member as a
\* field).
Members(T) ==
    CASE T = "Foo"  -> << Field("x", Plain(Required)), Field("y", Plain(Val("1"))) >>
      [] T = "Bar"  -> << Field("x", Plain(Required)) >>
      [] T = "Req"  -> << Field("a", Plain(Required)),
                          Field("i", InstanceOf("int", Required)) >>
      [] T = "Enum" -> << Field("c", OneOf({Val("a"), Val("b")}, None)) >>
      [] T = "EnumD" -> << Field("e", OneOf({Val("a"), Val("b")}, Val("b"))) >>
      [] T = "Bag"  -> << Field("tags", Plain(Ref(DefaultTagsRef))),
                          Field("m", MustSatisfy({Val("1")}, Required)) >>
      [] T = "Opt"  -> << Field("o", InstanceOrNone("str", None)) >>
      [] T = "Len"  -> << Field("n", Length(1, None)) >>

RecordTypes == {"Req", "Enum", "EnumD", "Bag", "Opt", "Len"}   \* the types SpecRecord constructs
ElementTypes == {"Foo", "Bar"}                 \* the types SpecList constructs

FieldNames(T) == {Members(T)[k].name : k \in 1..Len(Members(T))}

\* Named arguments of a construction call: a value for each of any subset of
\* the declared names, with or without one undeclared name.
UnknownName == "zz"
RecordArgVals == {None, Val("1"), Val("a"), Val("d")}
ElementArgVals == {Val("1"), Val("2")}
Kwargs(T, vals) ==
    {kw @@ u : kw \in UNION {[S -> vals] : S \in SUBSET FieldNames(T)},
               u \in {<< >>, (UnknownName :> Val("1"))}}

\* copy.deepcopy(default): a scalar is its own copy, a list value is copied
\* into a fresh list object.
\* (faulty variant: the default itself, not a copy)
DeepCopyAlias(heap, v) == [heap |-> heap, val |-> v]
DeepCopy(heap, v) ==
    IF v.tag = "list"
    THEN [heap |-> Append(heap, heap[v.ref]), val |-> Ref(Len(heap) + 1)]
    ELSE [heap |-> heap, val |-> v]

Raise(kind, key) ==
    [status |-> "DataError", kind |-> kind, key |-> key]

\* The check that closes __init__: any keyword that is no member raises.
\* (faulty variant: the check left out)
UnknownCheckSkipped(T, kwargs, heap, fields, dflt) ==
    [status |-> "ok", kind |-> "", key |-> "", heap |-> heap,
     fields |-> fields, dflt |-> dflt]
UnknownCheck(T, kwargs, heap, fields, dflt) ==
    IF \E key \in DOMAIN kwargs : key \notin FieldNames(T)
    THEN Raise("unknown", CHOOSE key \in DOMAIN kwargs : key \notin FieldNames(T))
    ELSE [status |-> "ok", kind |-> "", key |-> "", heap |-> heap,
          fields |-> fields, dflt |-> dflt]

\* "Check for missing required args"
\* (faulty variant: the check left out)
MissingRequiredNever(key, kwargs, default) == FALSE
MissingRequired(key, kwargs, default) ==
    key \notin DOMAIN kwargs /\ default = Required

\* MutableRecord.__init__: the members in order, then the unknown-keyword
\* check.  fields are the attributes set so far, dflt the fields resolved from
\* their default.
RECURSIVE InitFields(_, _, _, _, _, _)
InitFields(T, k, kwargs, heap, fields, dflt) ==
    IF k > Len(Members(T))
    THEN UnknownCheck(T, kwargs, heap, fields, dflt)
    ELSE LET key     == Members(T)[k].name
             spec    == Members(T)[k].spec
             default == spec.default
             res     == IF key \in DOMAIN kwargs
                        THEN [heap |-> heap, val |-> kwargs[key]]
                        ELSE DeepCopy(heap, default)
         IN  IF MissingRequired(key, kwargs, default)
             THEN Raise("required", key)
             ELSE IF IsValidator(spec) /\ ~Validate(res.heap, spec, res.val)
             THEN Raise("validation", key)
             ELSE InitFields(T, k + 1, kwargs, res.heap,
                             fields @@ (key :> res.val),
                             IF key \in DOMAIN kwargs THEN dflt ELSE dflt \cup {key})

MutableRecordInit(T, kwargs, heap) ==
    InitFields(T, 1, kwargs, heap, << >>, {})

NewInstance(T, r) == [cls |-> T, fields |-> r.fields, dflt |-> r.dflt]

\* ------------------------------------------------------------------ state
\* last is the call in progress from the caller's side: Idle between calls,
\* otherwise the call just made, its arguments and how it ended.
Idle == [op |-> "none", status |-> "ok"]

Init ==
    /\ objs = << DeclaredTags >>
    /\ inst = << >>
    /\ lists = << >>
    /\ views = {}
    /\ last = Idle

\* The caller moves on: the outcome of the last call is dropped, the heaps stay.
Forget ==
    /\ last # Idle
    /\ last' = Idle
    /\ UNCHANGED <<objs, inst, lists, views>>

\* T(**kwargs) from caller code.  A call that raises returns no instance: what
\* __init__ built is unreachable.
Construct(T, kwargs, cap) ==
    LET r == MutableRecordInit(T, kwargs, objs) IN
    /\ last = Idle
    /\ Len(inst) < cap
    /\ IF r.status = "ok"
       THEN /\ objs' = r.heap
            /\ inst' = Append(inst, NewInstance(T, r))
            /\ last' = [op |-> "construct", status |-> "ok", cls |-> T,
                        kwargs |-> kwargs, kind |-> "", key |-> "",
                        result |-> Len(inst) + 1, prev |-> inst]
       ELSE /\ UNCHANGED <<objs, inst>>
            /\ last' = [op |-> "construct", status |-> r.status, cls |-> T,
                        kwargs |-> kwargs, kind |-> r.kind, key |-> r.key,
                        result |-> 0, prev |-> inst]
    /\ UNCHANGED <<lists, views>>

\* instance.<f>.append(item): an in-place mutation of a list-valued field
TagItems == {"1", "2"}
MutateInPlace(i, f, item) ==
    /\ last = Idle
    /\ i \in 1..Len(inst)
    /\ f \in DOMAIN inst[i].fields
    /\ inst[i].fields[f].tag = "list"
    /\ Len(objs[inst[i].fields[f].ref]) < MaxTags
    /\ objs' = [objs EXCEPT ![inst[i].fields[f].ref] = Append(@, item)]
    /\ last' = [op |-> "mutate", status |-> "ok", target |-> i, field |-> f,
                prev |-> objs]
    /\ UNCHANGED <<inst, lists, views>>

\* ---------------------------------------------- construction of any record
NextRecord ==
    \/ \E T \in RecordTypes : \E kwargs \in Kwargs(T, RecordArgVals) :
          Construct(T, kwargs, MaxRecs)
    \/ Forget

SpecRecord == Init /\ [][NextRecord]_vars

\* ------------------------------------- mutable defaults and their mutation
\* The values a caller may supply for Bag.tags include the list objects
\* that exist, the declared default among them.
BagArgVals == {Val("1")} \cup {Ref(k) : k \in 1..Len(objs)}

NextDefaults ==
    \/ \E kwargs \in Kwargs("Bag", BagArgVals) : Construct("Bag", kwargs, MaxBags)
    \/ \E i \in 1..MaxBags : \E item \in TagItems :
          /\ i \in 1..Len(inst)
          /\ "tags" \in inst[i].dflt
          /\ MutateInPlace(i, "tags", item)
    \/ Forget

SpecDefaults == Init /\ [][NextDefaults]_vars

\* ------------------------------------------------------------ record lists
\* make_mutable_list_type(name + 'List', result_type, **fields): the list type
\* of a record type, its value_type, and one accessor <field>s per field.
ListTypeOf(T) == CASE T = "Foo" -> "FooList" [] T = "Bar" -> "BarList"
ValueType(cls) == CASE cls = "FooList" -> "Foo" [] cls = "BarList" -> "Bar"
                    [] OTHER -> "object"
Accessors(cls) == FieldNames(ValueType(cls))

\* An object offered to a list: a record instance (its index in inst) or None.
ObjNone == 0
Objects == {ObjNone} \cup (1..Len(inst))

\* isinstance(object, self.value_type)
\* (faulty variant: any record instance passes)
IsRecordOfAnyType(obj, T) == obj \in 1..Len(inst)
IsRecord(obj, T) == obj \in 1..Len(inst) /\ inst[obj].cls = T

Min(a, b) == IF a < b THEN a ELSE b
Max(a, b) == IF a > b THEN a ELSE b

\* A slice bound against a list of n elements: negative bounds count from the
\* end, all bounds are clamped to 0..n (slice.indices with no step).
Clamp(i, n) == IF i < 0 THEN Max(i + n, 0) ELSE Min(i, n)

\* list.__getitem__(slice(i, j))
SliceOf(items, i, j) ==
    SubSeq(items, Clamp(i, Len(items)) + 1, Clamp(j, Len(items)))

\* list.__setitem__(slice(i, j), objects): an empty or reversed range inserts
\* at its start.
SliceReplace(items, i, j, objects) ==
    LET lo == Clamp(i, Len(items))
        hi == Max(lo, Clamp(j, Len(items)))
    IN  SubSeq(items, 1, lo) \o objects \o SubSeq(items, hi + 1, Len(items))

\* A scalar index: negative indices count from the end; IndexError outside.
IndexOk(index, n) == -n <= index /\ index < n
Norm(index, n) == IF index < 0 THEN index + n ELSE index

\* list.insert(index, object): the index is clamped like a slice bound.
InsertAt(items, index, obj) ==
    LET at == Clamp(index, Len(items))
    IN  SubSeq(items, 1, at) \o << obj >> \o SubSeq(items, at + 1, Len(items))

\* The loop of extend: each element is checked, then appended, until an
\* element fails the check.
\* (faulty variant: no element is checked)
RECURSIVE ExtendLoopUnchecked(_, _, _)
ExtendLoopUnchecked(items, T, S) ==
    IF S = << >> THEN [ok |-> TRUE, items |-> items]
    ELSE ExtendLoopUnchecked(Append(items, Head(S)), T, Tail(S))
RECURSIVE ExtendLoop(_, _, _)
ExtendLoop(items, T, S) ==
    IF S = << >>
    THEN [ok |-> TRUE, items |-> items]
    ELSE IF ~IsRecord(Head(S), T)
    THEN [ok |-> FALSE, items |-> items]
    ELSE ExtendLoop(Append(items, Head(S)), T, Tail(S))

\* The checks of a slice assignment: every object of the copy is checked
\* before list.__setitem__ runs.
\* (faulty variant: only the first object is checked)
AllRecordsFirstOnly(objects, T) == objects = << >> \/ IsRecord(objects[1], T)
AllRecords(objects, T) == \A k \in 1..Len(objects) : IsRecord(objects[k], T)

\* type(self)(value): the type of the list a slice read returns
\* (faulty variant: a plain list)
SliceResultTypePlain(cls) == "list"
SliceResultType(cls) == cls

Sources == UNION {[1..n -> Objects] : n \in 0..MaxSrc}
SliceBounds == -1..MaxLen
Indices == -1..MaxLen

ListCall(op, status, l) ==
    [op |-> op, status |-> status, list |-> l, prev |-> lists, previnst |-> inst]

Assertion(ok) == IF ok THEN "ok" ELSE "AssertionError"

\* T.List(src): MutableRecordSet.__init__ appends the source's objects one by
\* one; a failed assertion leaves no list behind.
ListNew(T, src, cap) ==
    LET r == ExtendLoop(<< >>, T, src) IN
    /\ last = Idle
    /\ Len(lists) < cap
    /\ Len(src) <= MaxLen
    /\ lists' = IF r.ok THEN Append(lists, [cls |-> ListTypeOf(T), items |-> r.items])
                ELSE lists
    /\ last' = ListCall("new", Assertion(r.ok), IF r.ok THEN Len(lists) + 1 ELSE 0)
                 @@ [src |-> src]
    /\ UNCHANGED <<objs, inst, views>>

ListAppend(l, obj) ==
    LET ok == IsRecord(obj, ValueType(lists[l].cls)) IN
    /\ last = Idle
    /\ Len(lists[l].items) < MaxLen
    /\ lists' = IF ok THEN [lists EXCEPT ![l].items = Append(@, obj)] ELSE lists
    /\ last' = ListCall("append", Assertion(ok), l) @@ [obj |-> obj]
    /\ UNCHANGED <<objs, inst, views>>

ListInsert(l, index, obj) ==
    LET ok == IsRecord(obj, ValueType(lists[l].cls)) IN
    /\ last = Idle
    /\ Len(lists[l].items) < MaxLen
    /\ lists' = IF ok THEN [lists EXCEPT ![l].items = InsertAt(@, index, obj)] ELSE lists
    /\ last' = ListCall("insert", Assertion(ok), l) @@ [obj |-> obj, index |-> index]
    /\ UNCHANGED <<objs, inst, views>>

ListExtend(l, S) ==
    LET r == ExtendLoop(lists[l].items, ValueType(lists[l].cls), S) IN
    /\ last = Idle
    /\ Len(lists[l].items) + Len(S) <= MaxLen
    /\ lists' = [lists EXCEPT ![l].items = r.items]
    /\ last' = ListCall("extend", Assertion(r.ok), l) @@ [src |-> S]
    /\ UNCHANGED <<objs, inst, views>>

\* list[index] = obj: the assertion comes first, then list.__setitem__ raises
\* IndexError for an index out of range.
ListSetItem(l, index, obj) ==
    LET ok     == IsRecord(obj, ValueType(lists[l].cls))
        n      == Len(lists[l].items)
        status == IF ~ok THEN "AssertionError"
                  ELSE IF ~IndexOk(index, n) THEN "IndexError" ELSE "ok"
    IN
    /\ last = Idle
    /\ lists' = IF status = "ok"
                THEN [lists EXCEPT ![l].items[Norm(index, n) + 1] = obj]
                ELSE lists
    /\ last' = ListCall("setitem", status, l) @@ [obj |-> obj, index |-> index]
    /\ UNCHANGED <<objs, inst, views>>

\* list[i:j] = V
ListSetSlice(l, i, j, V) ==
    LET ok == AllRecords(V, ValueType(lists[l].cls))
        to == SliceReplace(lists[l].items, i, j, V)
    IN
    /\ last = Idle
    /\ Len(to) <= MaxLen
    /\ lists' = IF ok THEN [lists EXCEPT ![l].items = to] ELSE lists
    /\ last' = ListCall("setslice", Assertion(ok), l) @@ [src |-> V, i |-> i, j |-> j]
    /\ UNCHANGED <<objs, inst, views>>

\* list[i:j]: a new list of type(self) built from the slice
ListGetSlice(l, i, j) ==
    LET cls == SliceResultType(lists[l].cls)
        r   == ExtendLoop(<< >>, ValueType(cls), SliceOf(lists[l].items, i, j))
    IN
    /\ last = Idle
    /\ Len(lists) < MaxLists
    /\ lists' = IF r.ok THEN Append(lists, [cls |-> cls, items |-> r.items]) ELSE lists
    /\ last' = ListCall("getslice", Assertion(r.ok), l)
                 @@ [i |-> i, j |-> j, result |-> IF r.ok THEN Len(lists) + 1 ELSE 0]
    /\ UNCHANGED <<objs, inst, views>>

\* list.append_new(**kwargs) and list.insert_new(index, **kwargs): the
\* instance is constructed first, so a DataError leaves the list alone.
ListInsertNew(l, index, kwargs, op) ==
    LET T == ValueType(lists[l].cls)
        r == MutableRecordInit(T, kwargs, objs)
        new == Len(inst) + 1
    IN
    /\ last = Idle
    /\ Len(inst) < MaxInst
    /\ Len(lists[l].items) < MaxLen
    /\ IF r.status = "ok"
       THEN /\ objs' = r.heap
            /\ inst' = Append(inst, NewInstance(T, r))
            /\ lists' = [lists EXCEPT ![l].items = InsertAt(@, index, new)]
       ELSE UNCHANGED <<objs, inst, lists>>
    /\ last' = ListCall(op, r.status, l) @@ [kwargs |-> kwargs, index |-> index]
    /\ UNCHANGED views

ListAppendNew(l, kwargs) ==
    ListInsertNew(l, Len(lists[l].items), kwargs, "append_new")

\* instance.<f> = v from caller code: no validation runs
FieldVals == {Val("1"), Val("2")}
SetAttr(i, f, v) ==
    /\ last = Idle
    /\ i \in 1..Len(inst)
    /\ f \in DOMAIN inst[i].fields
    /\ inst' = [inst EXCEPT ![i].fields[f] = v, ![i].dflt = @ \ {f}]
    /\ last' = [op |-> "setattr", status |-> "ok", target |-> i, field |-> f,
                value |-> v, previnst |-> inst]
    /\ UNCHANGED <<objs, lists, views>>

ElementKwargs(T) ==
    {kw \in Kwargs(T, {Val("1")}) : DOMAIN kw \subseteq {"x", UnknownName}}

NextList ==
    \/ \E T \in ElementTypes : \E kwargs \in ElementKwargs(T) :
          Construct(T, kwargs, MaxInst)
    \/ \E src \in Sources : ListNew("Foo", src, MaxLists)
    \/ \E l \in 1..Len(lists) : \E obj \in Objects : ListAppend(l, obj)
    \/ \E l \in 1..Len(lists) : \E index \in Indices : \E obj \in Objects :
          ListInsert(l, index, obj)
    \/ \E l \in 1..Len(lists) : \E S \in Sources : ListExtend(l, S)
    \/ \E l \in 1..Len(lists) : \E index \in Indices : \E obj \in Objects :
          ListSetItem(l, index, obj)
    \/ \E l \in 1..Len(lists) : \E i, j \in SliceBounds : \E V \in Sources :
          ListSetSlice(l, i, j, V)
    \/ \E l \in 1..Len(lists) : \E i, j \in SliceBounds : ListGetSlice(l, i, j)
    \/ \E l \in 1..Len(lists) : \E kwargs \in ElementKwargs(ValueType(lists[l].cls)) :
          ListAppendNew(l, kwargs)
    \/ \E l \in 1..Len(lists) : \E index \in Indices :
          \E kwargs \in ElementKwargs(ValueType(lists[l].cls)) :
             ListInsertNew(l, index, kwargs, "insert_new")
    \/ \E i \in 1..MaxInst : \E v \in FieldVals : SetAttr(i, "x", v)
    \/ Forget

SpecList == Init /\ [][NextList]_vars

\* -------------------------------------------------------------- field views
\* namespace[key + 's'] = FieldViewDescriptor(key): the field the accessor of
\* member key projects.
\* (faulty variant: every accessor bound to the last member)
DescriptorFieldLastKey(cls, key) ==
    Members(ValueType(cls))[Len(Members(ValueType(cls)))].name
DescriptorField(cls, key) == key

\* FieldView(container, field).  of and name are the list and the accessor the
\* view was obtained by: they play no part in what the view does.
FieldView(container, field, l, key) ==
    [container |-> container, field |-> field, of |-> l, name |-> key]

FieldViewLen(v) == Len(lists[v.container].items)

\* view[index], index in range
FieldViewGetItem(v, index) ==
    LET items == lists[v.container].items
    IN  inst[items[Norm(index, Len(items)) + 1]].fields[v.field]

\* list(view)
FieldViewIter(v) ==
    [k \in 1..Len(lists[v.container].items) |->
        inst[lists[v.container].items[k]].fields[v.field]]

\* setattr(item, field, value) on the heap of instances
SetField(heap, item, field, value) ==
    [heap EXCEPT ![item].fields[field] = value, ![item].dflt = @ \ {field}]

\* self._container[index] for a slice: the elements the assignment addresses
\* (faulty variant: the whole container, not the slice)
AddressedWhole(v, i, j) == lists[v.container].items
Addressed(v, i, j) == SliceOf(lists[v.container].items, i, j)

\* for item, entry in zip(items, value): setattr(item, field, entry)
RECURSIVE ZipAssign(_, _, _, _)
ZipAssign(heap, items, value, field) ==
    IF items = << >> \/ value = << >>
    THEN heap
    ELSE ZipAssign(SetField(heap, Head(items), field, Head(value)),
                   Tail(items), Tail(value), field)

ViewCall(op, status, v) ==
    [op |-> op, status |-> status, view |-> v, prev |-> lists, previnst |-> inst]

\* list.<key>s: FieldViewDescriptor.__get__
GetView(l, key) ==
    LET v == FieldView(l, DescriptorField(lists[l].cls, key), l, key) IN
    /\ last = Idle
    /\ key \in Accessors(lists[l].cls)
    /\ v \notin views
    /\ Cardinality(views) < MaxViews
    /\ views' = views \cup {v}
    /\ last' = ViewCall("getview", "ok", v)
    /\ UNCHANGED <<objs, inst, lists>>

\* view[index] = value
FieldViewSetItem(v, index, value) ==
    LET items == lists[v.container].items IN
    /\ last = Idle
    /\ v \in views
    /\ IF IndexOk(index, Len(items))
       THEN /\ inst' = SetField(inst, items[Norm(index, Len(items)) + 1], v.field, value)
            /\ last' = ViewCall("view_setitem", "ok", v) @@ [index |-> index, value |-> value]
       ELSE /\ UNCHANGED inst
            /\ last' = ViewCall("view_setitem", "IndexError", v)
                         @@ [index |-> index, value |-> value]
    /\ UNCHANGED <<objs, lists, views>>

\* view[i:j] = R
FieldViewSetSlice(v, i, j, R) ==
    /\ last = Idle
    /\ v \in views
    /\ inst' = ZipAssign(inst, Addressed(v, i, j), R, v.field)
    /\ last' = ViewCall("view_setslice", "ok", v) @@ [i |-> i, j |-> j, value |-> R]
    /\ UNCHANGED <<objs, lists, views>>

Rows == UNION {[1..n -> FieldVals] : n \in 0..MaxSrc}

NextView ==
    \/ \E kwargs \in ElementKwargs("Foo") : Construct("Foo", kwargs, MaxInst)
    \/ \E src \in Sources : ListNew("Foo", src, MaxBacking)
    \/ \E l \in 1..Len(lists) : \E obj \in Objects : ListAppend(l, obj)
    \/ \E l \in 1..Len(lists) : \E index \in Indices : \E obj \in Objects :
          ListSetItem(l, index, obj)
    \/ \E l \in 1..Len(lists) : \E kwargs \in ElementKwargs(ValueType(lists[l].cls)) :
          ListAppendNew(l, kwargs)
    \/ \E i \in 1..MaxInst : \E v \in FieldVals : SetAttr(i, "x", v)
    \/ \E l \in 1..Len(lists) : \E key \in {"x", "y"} : GetView(l, key)
    \/ \E v \in views : \E index \in Indices : \E value \in FieldVals :
          FieldViewSetItem(v, index, value)
    \/ \E v \in views : \E i, j \in SliceBounds : \E R \in Rows :
          FieldViewSetSlice(v, i, j, R)
    \/ Forget

SpecView == Init /\ [][NextView]_vars

\* ----------------------------------------------------------------- claims
Constructed == last.op = "construct"
Returned    == Constructed /\ last.status = "ok"
Rejected    == Constructed /\ last.status = "DataError" /\ last.result = 0
                 /\ inst = last.prev

SpecAt(T, k)    == Members(T)[k].spec
NameAt(T, k)    == Members(T)[k].name
Supplied(T, k)  == NameAt(T, k) \in DOMAIN last.kwargs
IsRequired(T, k) == SpecAt(T, k).default = Required

\* The value the k-th field resolves to, and whether the field is accepted.
Resolved(T, k) ==
    IF Supplied(T, k) THEN last.kwargs[NameAt(T, k)] ELSE SpecAt(T, k).default
Accepted(T, k) ==
    /\ Supplied(T, k) \/ ~IsRequired(T, k)
    /\ IsValidator(SpecAt(T, k)) => Validate(objs, SpecAt(T, k), Resolved(T, k))

\* C4: a construction call that leaves out a field whose default is Required
\* (a bare Required, or a validator built without a default) ends in a DataError
\* and returns no instance; a Required field that is supplied and passes its
\* validator is not what a rejection names.
C4_RequiredEnforced ==
    Constructed =>
        \A k \in 1..Len(Members(last.cls)) :
            IsRequired(last.cls, k) =>
                /\ ~Supplied(last.cls, k) => Rejected
                /\ (Supplied(last.cls, k) /\ Accepted(last.cls, k))
                       => ~(last.status = "DataError" /\ last.key = NameAt(last.cls, k))

\* C4 witnesses: a bare Required and a validator without default left out and
\* rejected; a Required field supplied and the instance returned.
C4_Witness ==
    /\ Constructed /\ last.cls = "Req" /\ last.status = "DataError"
    /\ "a" \in DOMAIN last.kwargs /\ "i" \notin DOMAIN last.kwargs
    /\ last.kind = "required" /\ last.key = "i"

\* C5: a construction call with a name that is no declared field ends in a
\* DataError and returns no instance; when every declared field is accepted the
\* error is the unknown-field one.
C5_UnknownRejected ==
    (Constructed /\ \E key \in DOMAIN last.kwargs : key \notin FieldNames(last.cls)) =>
        /\ Rejected
        /\ (\A k \in 1..Len(Members(last.cls)) : Accepted(last.cls, k))
               => (last.kind = "unknown" /\ last.key \notin FieldNames(last.cls))

C5_Witness ==
    /\ Constructed /\ last.cls = "Req" /\ last.status = "DataError"
    /\ DOMAIN last.kwargs = {"a", "i", UnknownName}
    /\ last.kwargs["i"] = Val("1")
    /\ last.kind = "unknown"

\* C9: OneOf at construction.  Without a default: omitted, None or a
\* non-member is rejected, a member is returned unchanged.  With a non-None
\* member as default: omitted yields the default, a member yields the member,
\* a non-None non-member is rejected.
OneOfMembers(T) == SpecAt(T, 1).values
NoUnknown == DOMAIN last.kwargs \subseteq FieldNames(last.cls)

C9_OneOfSemantics ==
    /\ (Constructed /\ last.cls = "Enum") =>
           /\ ("c" \notin DOMAIN last.kwargs) => Rejected
           /\ ("c" \in DOMAIN last.kwargs /\ last.kwargs["c"] = None) => Rejected
           /\ ("c" \in DOMAIN last.kwargs /\ last.kwargs["c"] \notin OneOfMembers("Enum"))
                  => Rejected
           /\ ("c" \in DOMAIN last.kwargs /\ last.kwargs["c"] \in OneOfMembers("Enum")
                 /\ NoUnknown)
                  => /\ Returned
                     /\ inst[last.result].cls = "Enum"
                     /\ inst[last.result].fields["c"] = last.kwargs["c"]
    /\ (Constructed /\ last.cls = "EnumD") =>
           /\ ("e" \notin DOMAIN last.kwargs /\ NoUnknown)
                  => /\ Returned
                     /\ inst[last.result].fields["e"] = SpecAt("EnumD", 1).default
           /\ ("e" \in DOMAIN last.kwargs /\ last.kwargs["e"] \in OneOfMembers("EnumD")
                 /\ NoUnknown)
                  => /\ Returned
                     /\ inst[last.result].fields["e"] = last.kwargs["e"]
           /\ ("e" \in DOMAIN last.kwargs /\ last.kwargs["e"] # None
                 /\ last.kwargs["e"] \notin OneOfMembers("EnumD"))
                  => Rejected

C9_Witness ==
    /\ Returned /\ last.cls = "EnumD" /\ last.kwargs = << >>
    /\ inst[last.result].fields["e"] = Val("b")

\* C6: instances built without supplying a field whose default is a list hold
\* list objects of their own: no two of them share one, none holds the declared
\* default itself, so an in-place mutation of one leaves the others' values and
\* the declared default as they were, and a later default-constructed instance
\* starts from the declared default.
DefaultInitialised(i) == "tags" \in inst[i].dflt
TagsRef(i) == inst[i].fields["tags"].ref

C6_DefaultIsolation ==
    /\ objs[DefaultTagsRef] = DeclaredTags
    /\ \A i \in 1..Len(inst) : DefaultInitialised(i) =>
           /\ inst[i].fields["tags"].tag = "list"
           /\ TagsRef(i) # DefaultTagsRef
           /\ \A j \in 1..Len(inst) :
                  (j # i /\ DefaultInitialised(j)) => TagsRef(j) # TagsRef(i)
    /\ (Returned /\ "tags" \notin DOMAIN last.kwargs) =>
           objs[TagsRef(last.result)] = DeclaredTags
    /\ last.op = "mutate" =>
           /\ objs[TagsRef(last.target)] # last.prev[TagsRef(last.target)]
           /\ \A j \in 1..Len(inst) :
                  (j # last.target /\ DefaultInitialised(j))
                      => objs[TagsRef(j)] = last.prev[TagsRef(j)]

\* C6 witness: two default-constructed instances, the first one's value
\* mutated in place, the second constructed after the mutation.
C6_Witness ==
    /\ Returned /\ last.result = 2 /\ last.kwargs = ("m" :> Val("1"))
    /\ DefaultInitialised(1) /\ DefaultInitialised(2)
    /\ objs[TagsRef(1)] = << "1", "2" >>
    /\ objs[TagsRef(2)] = DeclaredTags

\* ------------------------------------------------------ claims on record lists
\* obj is an instance of record type T, said without the model's isinstance
InstanceOfType(obj, T) == \E k \in 1..Len(inst) : k = obj /\ inst[k].cls = T

OldItems == last.prev[last.list].items
NewItems == lists[last.list].items
ListValueType == ValueType(last.prev[last.list].cls)

\* C1: whatever calls were made, and however they ended, every element a
\* record list holds is an instance of the list's value_type.
C1_Homogeneous ==
    \A l \in 1..Len(lists) :
        \A k \in 1..Len(lists[l].items) :
            InstanceOfType(lists[l].items[k], ValueType(lists[l].cls))

\* C1 witness: a list holding elements after a call on it failed on an object
\* of another record type.
C1_Witness ==
    /\ last.op \in {"append", "insert", "setitem"}
    /\ last.status = "AssertionError"
    /\ last.obj # ObjNone /\ inst[last.obj].cls = "Bar"
    /\ Len(NewItems) = MaxLen

\* The range a slice [i:j] addresses in a list of n elements: lo elements come
\* before it, the elements from hi on come after it.
RangeLo(i, n) == IF i < 0 THEN (IF i + n < 0 THEN 0 ELSE i + n) ELSE (IF i > n THEN n ELSE i)
RangeHi(i, j, n) == IF RangeLo(j, n) < RangeLo(i, n) THEN RangeLo(i, n) ELSE RangeLo(j, n)

\* C2: list[i:j] = V with every element of V an instance of value_type leaves
\* the elements before i, then V, then the elements from j on; with any other
\* element in V it fails and the list is as before.
C2_SetSlice ==
    last.op = "setslice" =>
        LET V  == last.src
            n  == Len(OldItems)
            lo == RangeLo(last.i, n)
            hi == RangeHi(last.i, last.j, n)
        IN  IF \A k \in 1..Len(V) : InstanceOfType(V[k], ListValueType)
            THEN /\ last.status = "ok"
                 /\ Len(NewItems) = n + Len(V) - (hi - lo)
                 /\ \A p \in 1..lo : NewItems[p] = OldItems[p]
                 /\ \A p \in 1..Len(V) : NewItems[lo + p] = V[p]
                 /\ \A p \in (hi + 1)..n : NewItems[lo + Len(V) + (p - hi)] = OldItems[p]
                 /\ \A l \in 1..Len(lists) : l # last.list => lists[l] = last.prev[l]
            ELSE /\ last.status = "AssertionError"
                 /\ lists = last.prev

\* C2 witness: a slice assignment that fails on its second element, the first
\* being valid, on a list that holds elements.
C2_Witness ==
    /\ last.op = "setslice" /\ last.status = "AssertionError"
    /\ Len(last.src) = 2
    /\ InstanceOfType(last.src[1], ListValueType)
    /\ ~InstanceOfType(last.src[2], ListValueType)
    /\ Len(OldItems) = 2 /\ last.i = 0 /\ last.j = 2

\* The elements of S before the first that is no instance of T
RECURSIVE ValidPrefix(_, _)
ValidPrefix(S, T) ==
    IF S = << >> \/ ~InstanceOfType(Head(S), T) THEN << >>
    ELSE << Head(S) >> \o ValidPrefix(Tail(S), T)

\* C3 as stated: an extend whose input holds an element that is no instance of
\* value_type fails and leaves the list as it was; an extend of instances only
\* appends them in order.
C3_ExtendAllOrNothing ==
    last.op = "extend" =>
        IF \A k \in 1..Len(last.src) : InstanceOfType(last.src[k], ListValueType)
        THEN last.status = "ok" /\ NewItems = OldItems \o last.src
        ELSE last.status = "AssertionError" /\ lists = last.prev

\* C3 amended: the failing extend keeps the elements checked before the
\* failure: the list is the old list followed by the input's elements up to
\* the first that is no instance of value_type.
C3_ExtendKeepsCheckedPrefix ==
    last.op = "extend" =>
        /\ NewItems = OldItems \o ValidPrefix(last.src, ListValueType)
        /\ \A l \in 1..Len(lists) : l # last.list => lists[l] = last.prev[l]
        /\ IF \A k \in 1..Len(last.src) : InstanceOfType(last.src[k], ListValueType)
           THEN last.status = "ok" /\ NewItems = OldItems \o last.src
           ELSE last.status = "AssertionError"

\* C3 witness: an extend that failed on its second element and kept the first.
C3_Witness ==
    /\ last.op = "extend" /\ last.status = "AssertionError"
    /\ Len(last.src) = 2
    /\ Len(NewItems) = Len(OldItems) + 1
    /\ NewItems[Len(NewItems)] = last.src[1]

StructuralOps ==
    {"append", "insert", "extend", "setitem", "setslice", "append_new", "insert_new"}

\* C8: list[i:j] returns a new list of the list's own type holding exactly the
\* sliced elements, the same instances and in order; the read changes no list
\* and no instance, and a later structural change of one list changes no other
\* list.
C8_GetSlice ==
    /\ last.op = "getslice" =>
           LET n   == Len(OldItems)
               lo  == RangeLo(last.i, n)
               hi  == RangeHi(last.i, last.j, n)
               res == lists[last.result]
           IN  /\ last.status = "ok"
               /\ last.result = Len(last.prev) + 1
               /\ Len(lists) = Len(last.prev) + 1
               /\ res.cls = last.prev[last.list].cls
               /\ ValueType(res.cls) = ListValueType
               /\ Len(res.items) = hi - lo
               /\ \A p \in 1..(hi - lo) : res.items[p] = OldItems[lo + p]
               /\ (last.i = 1 /\ last.j >= n /\ n >= 1) => Len(res.items) = n - 1
               /\ \A l \in 1..Len(last.prev) : lists[l] = last.prev[l]
               /\ inst = last.previnst
    /\ (last.op \in StructuralOps) =>
           \A l \in 1..Len(last.prev) : l # last.list => lists[l] = last.prev[l]
    /\ last.op = "setattr" =>
           \A l \in 1..Len(lists) : \A k \in 1..Len(lists[l].items) :
               lists[l].items[k] = last.target
                   => inst[lists[l].items[k]].fields[last.field] = last.value

\* C8 witness: list[1:] of a list of two distinct elements.
C8_Witness ==
    /\ last.op = "getslice" /\ last.status = "ok"
    /\ last.i = 1 /\ last.j = MaxLen
    /\ Len(OldItems) = 2 /\ OldItems[1] # OldItems[2]
    /\ lists[last.result].items = << OldItems[2] >>

\* ------------------------------------------------------- claims on field views
ViewItems(v) == lists[v.of].items

\* C7: a view obtained as L.<name>s has the length of L, reads L[i].<name> at
\* every index and iterates the current values in list order, whatever was
\* done to L and its elements since; view[i] = value sets that field of L[i]
\* and changes no other instance, no other field and no list.
C7_LiveAlias ==
    /\ \A v \in views :
           /\ FieldViewLen(v) = Len(ViewItems(v))
           /\ \A i \in 0..(Len(ViewItems(v)) - 1) :
                  FieldViewGetItem(v, i) = inst[ViewItems(v)[i + 1]].fields[v.name]
           /\ FieldViewIter(v) =
                  [k \in 1..Len(ViewItems(v)) |-> inst[ViewItems(v)[k]].fields[v.name]]
    /\ (last.op = "view_setitem" /\ last.status = "ok") =>
           LET items == last.prev[last.view.of].items
               at    == IF last.index < 0 THEN last.index + Len(items) ELSE last.index
               e     == items[at + 1]
           IN  /\ inst[e].fields[last.view.name] = last.value
               /\ \A k \in 1..Len(inst) : k # e => inst[k] = last.previnst[k]
               /\ \A g \in DOMAIN inst[e].fields :
                      g # last.view.name => inst[e].fields[g] = last.previnst[e].fields[g]
               /\ inst[e].cls = last.previnst[e].cls
               /\ Len(inst) = Len(last.previnst)
               /\ lists = last.prev

\* C7 witness: a view of x over a list of two distinct elements with values
\* 1 and 1, after view[1] = 2, iterates 1, 2.
C7_Witness ==
    /\ last.op = "view_setitem" /\ last.status = "ok"
    /\ last.index = 1 /\ last.value = Val("2") /\ last.view.name = "x"
    /\ Len(ViewItems(last.view)) = 2
    /\ ViewItems(last.view)[1] # ViewItems(last.view)[2]
    /\ FieldViewIter(last.view) = << Val("1"), Val("2") >>

\* The elements view[i:j] addresses, and how many of them R pairs with
AddressedItems ==
    LET items == last.prev[last.view.of].items
        n     == Len(items)
    IN  SubSeq(items, RangeLo(last.i, n) + 1, RangeHi(last.i, last.j, n))
Paired == IF Len(AddressedItems) < Len(last.value)
          THEN Len(AddressedItems) ELSE Len(last.value)

\* C10 as stated: after view[i:j] = R the p-th addressed element's field is
\* R[p] for every p below the shorter length k, and nothing else changed: not
\* the addressed elements at positions from k on, the elements outside the
\* slice, the other fields, or the list.
C10_PairedPositionwise ==
    last.op = "view_setslice" =>
        LET items == last.prev[last.view.of].items
            n     == Len(items)
            lo    == RangeLo(last.i, n)
            hi    == RangeHi(last.i, last.j, n)
            f     == last.view.name
        IN
        /\ last.status = "ok"
        /\ \A p \in 1..Paired : inst[AddressedItems[p]].fields[f] = last.value[p]
        /\ \A p \in (Paired + 1)..Len(AddressedItems) :
               inst[AddressedItems[p]] = last.previnst[AddressedItems[p]]
        /\ \A p \in (1..lo) \cup ((hi + 1)..n) : inst[items[p]] = last.previnst[items[p]]
        /\ \A k \in 1..Len(inst) : \A g \in DOMAIN inst[k].fields :
               g # f => inst[k].fields[g] = last.previnst[k].fields[g]
        /\ lists = last.prev

\* C10 amended: an element addressed at several paired positions ends with the
\* entry of the last of them; every paired element ends with the entry of its
\* last paired position, and nothing else changes.
LastPairing(e) ==
    CHOOSE p \in 1..Paired :
        /\ AddressedItems[p] = e
        /\ \A q \in (p + 1)..Paired : AddressedItems[q] # e

C10_PairedLastWins ==
    last.op = "view_setslice" =>
        LET paired == {AddressedItems[p] : p \in 1..Paired} IN
        /\ last.status = "ok"
        /\ \A e \in paired :
               /\ inst[e].fields[last.view.name] = last.value[LastPairing(e)]
               /\ \A g \in DOMAIN inst[e].fields :
                      g # last.view.name => inst[e].fields[g] = last.previnst[e].fields[g]
               /\ inst[e].cls = last.previnst[e].cls
        /\ \A p \in 1..Paired :
               (\A q \in (p + 1)..Paired : AddressedItems[q] # AddressedItems[p])
                   => inst[AddressedItems[p]].fields[last.view.name] = last.value[p]
        /\ \A k \in 1..Len(inst) : k \notin paired => inst[k] = last.previnst[k]
        /\ Len(inst) = Len(last.previnst)
        /\ lists = last.prev

\* C10 witness: two addressed elements, one entry: the first is written, the
\* second is left alone.
C10_Witness ==
    /\ last.op = "view_setslice"
    /\ Len(AddressedItems) = 2 /\ Len(last.value) = 1
    /\ AddressedItems[1] # AddressedItems[2]
    /\ inst[AddressedItems[1]].fields["x"] = Val("2")
    /\ last.previnst[AddressedItems[1]].fields["x"] = Val("1")
    /\ inst[AddressedItems[2]].fields["x"] = Val("1")
    /\ last.view.name = "x"

====
